---- MODULE Spec2Model ----
(***************************************************************************)
(* Model of src/static/script.js (class BillboardAI): the in-memory image  *)
(* entries and their analysis lifecycle, the batch driver, ingestion of    *)
(* uploaded files, the analysis history and the three localStorage         *)
(* records (currentUser, billboardAI_settings, billboardAI_history).       *)
(*                                                                         *)
(* One step of the model is one run-to-completion job of the browser's     *)
(* event loop: an event handler or the continuation of an await, from the  *)
(* point it is resumed to its next suspension.                             *)
(*                                                                         *)
(* The page is taken to hold the elements the script looks up (gallery,    *)
(* toast container, forms), image ids never collide, and timers of         *)
(* different calls may fire in any order.  Dates (uploadTime, analyzedAt)  *)
(* and the data URL of an image are left out.                              *)
(***************************************************************************)
EXTENDS Integers, Sequences, FiniteSets, TLC

\* ---------------------------------------------------------------- bounds
\* Number of image ids generateImageId hands out in one behaviour of Spec.
MaxImages == 2

\* The same in one behaviour of SpecBatch, which follows one batch run over
\* a longer snapshot in a quieter environment.
MaxBatchImages == 3

\* The same in one behaviour of SpecValidate, and the length of the batches
\* it draws from ValFiles.
MaxValImages == 2
MaxValBatch == 2

\* ------------------------------------------------------------ data model
MB == 1024 * 1024

\* Candidate files (name, MIME type, byte size) offered by the file picker.
FileA == [name |-> "a.png", type |-> "image/png",  size |-> 2 * MB]
FileB == [name |-> "b.jpg", type |-> "image/jpeg", size |-> 15 * MB]
FileC == [name |-> "c.txt", type |-> "text/plain", size |-> 100]

\* Batches of files dropped on the upload zone or chosen in the file input.
Batches == { << FileA >>, << FileC, FileA, FileB >> }

\* The batch SpecBatch uploads.
LongBatch == << FileA, FileA, FileA >>

\* Files at and around the limits validateFiles tests: each allowed type, a
\* type outside the list, no type at all, and sizes at the limit and one
\* byte over it for maxFileSize 1 and 10.
PngAtLimit == [name |-> "limit.png", type |-> "image/png", size |-> 1 * MB]
PngOver == [name |-> "over.png", type |-> "image/png", size |-> 1 * MB + 1]
JpgAlias == [name |-> "alias.jpg", type |-> "image/jpg", size |-> 100]
JpegAtTen == [name |-> "ten.jpeg", type |-> "image/jpeg", size |-> 10 * MB]
GifOverTen == [name |-> "big.gif", type |-> "image/gif", size |-> 10 * MB + 1]
WebpEmpty == [name |-> "empty.webp", type |-> "image/webp", size |-> 0]
TextDoc == [name |-> "doc.txt", type |-> "text/plain", size |-> 100]
SvgHuge == [name |-> "huge.svg", type |-> "image/svg+xml", size |-> 50 * MB]
NoType == [name |-> "blob", type |-> "", size |-> 10]

ValFiles ==
    { PngAtLimit, PngOver, JpgAlias, JpegAtTen, GifOverTen, WebpEmpty,
      TextDoc, SvgHuge, NoType }

\* The batches SpecValidate offers: every sequence of at most MaxValBatch of
\* ValFiles, and two longer ones with a rejected file between, before and
\* after accepted ones.
ValBatches ==
    UNION { [1..n -> ValFiles] : n \in 0..MaxValBatch }
    \cup { << PngAtLimit, TextDoc, WebpEmpty >>,
           << SvgHuge, JpgAlias, GifOverTen, NoType >> }

\* Pairs of Math.random() draws, in thousandths: the first decides the
\* verdict (line 625), the second the confidence (line 626).
RandomDraws == { << 700, 0 >>, << 500, 998 >> }

\* Text of a localStorage record: absent (getItem returns null), a text
\* JSON.parse throws on, or the JSON text of a value.
Absent == [kind |-> "absent"]
Corrupt == [kind |-> "corrupt"]

\* JSON.stringify of a value made of strings, numbers, booleans, arrays
\* and plain objects.
Stringify(v) == [kind |-> "json", val |-> v]

\* JSON.parse: defined on JSON texts only; the callers test Parses first
\* (their try/catch).
Parses(text) == text.kind = "json"
Parse(text) == text.val

\* this.currentUser: null, or the object read from the store.
NullUser == [kind |-> "null"]
SomeUser == [kind |-> "user", username |-> "u", email |-> "u@x", role |-> "User"]

\* Defaults set by the constructor.
DefaultSettings ==
    [theme |-> "light", notifications |-> TRUE, maxFileSize |-> 10,
     autoAnalyze |-> FALSE]

\* Object spread { ...a, ...b }.
Spread(a, b) ==
    [k \in (DOMAIN a) \cup (DOMAIN b) |-> IF k \in DOMAIN b THEN b[k] ELSE a[k]]

\* Values the settings form can submit.
FormSettings ==
    { [theme |-> "light", notifications |-> TRUE, maxFileSize |-> 20,
       autoAnalyze |-> TRUE],
      [theme |-> "dark", notifications |-> FALSE, maxFileSize |-> 10,
       autoAnalyze |-> FALSE] }

\* Values the settings form can submit in SpecSettings: every combination
\* of two themes, the two checkboxes and two positions of the size slider.
SettingsForms ==
    { [theme |-> t, notifications |-> n, maxFileSize |-> m, autoAnalyze |-> a] :
        t \in { "light", "dark" }, n \in BOOLEAN, m \in { 5, 50 },
        a \in BOOLEAN }

\* Settings records an earlier version of the page may have stored: any
\* subset of the four fields, each with a value that is not its default.
StoredFields ==
    [theme |-> "dark", notifications |-> FALSE, maxFileSize |-> 25,
     autoAnalyze |-> TRUE]

PartialSettings ==
    { [k \in ks |-> StoredFields[k]] : ks \in SUBSET DOMAIN StoredFields }

\* A stored history item, as an earlier session left it.
OldItem ==
    [id |-> 0, name |-> "old.png", status |-> "authorized",
     confidence |-> 955, size |-> MB]

\* Contents of the store when the page is opened.
StoreOf(u, s, h) ==
    [currentUser |-> u, billboardAI_settings |-> s, billboardAI_history |-> h]

InitStores ==
    { StoreOf(Stringify(SomeUser), Stringify([theme |-> "dark"]),
              Stringify(<< OldItem >>)),
      StoreOf(Corrupt, Corrupt, Corrupt),
      StoreOf(Absent, Absent, Absent) }

\* The stores SpecValidate opens the page with: a user is signed in and
\* maxFileSize is the default, or 1.
ValidateStores ==
    { StoreOf(Stringify(SomeUser), s, Absent) :
        s \in { Absent, Stringify([maxFileSize |-> 1]) } }

\* The store SpecBatch opens the page with: auto-analyze is on.
BatchStore ==
    StoreOf(Stringify(SomeUser), Stringify([autoAnalyze |-> TRUE]), Absent)

\* The stores SpecAuto opens the page with: a user is signed in and
\* auto-analyze is on, or off by default.
AutoStores ==
    { BatchStore, StoreOf(Stringify(SomeUser), Absent, Absent) }

\* The stores SpecSettings opens the page with.
SettingsStores ==
    { StoreOf(Absent, s, Absent) :
        s \in { Absent, Corrupt } \cup { Stringify(p) : p \in PartialSettings } }


Terminal == { "authorized", "unauthorized", "error" }

\* imageData.confidence before an analysis has completed (undefined).
NoConfidence == -1

Range(s) == { s[i] : i \in DOMAIN s }

\* ----------------------------------------------------------------- state
VARIABLES
    phase,           \* "boot" until init() has run its loads, then "ready"
    store,           \* localStorage: the three records
    currentUser,     \* this.currentUser
    settings,        \* this.settings
    analysisHistory, \* this.analysisHistory, newest first
    images,          \* every imageData object created, by id
    uploadedImages,  \* this.state.uploadedImages: its keys in insertion order
    elements,        \* gallery elements in the document, by id: the state of
                     \* the element's Analyze button
    nextId,          \* next id generateImageId returns
    ingests,         \* processFiles calls suspended in fileToDataURL
    tasks,           \* analyzeImage calls suspended in performAnalysis
    drivers,         \* analyzeAllPendingImages calls in progress
    removals,        \* ids whose removeImage timer is armed
    stats,           \* numbers updateStats last put on the page
    toasts,          \* showToast calls of the last step, in order
    event            \* what the last step was

vars == << phase, store, currentUser, settings, analysisHistory, images,
           uploadedImages, elements, nextId, ingests, tasks, drivers,
           removals, stats, toasts, event >>

\* A showToast(message, type) call; file is the file name the message
\* starts with ("" when it names none).
FileToast(file, message, type) ==
    [file |-> file, message |-> message, type |-> type]

Toast(message, type) == FileToast("", message, type)

\* The record of a step: the operation, the image id it is about (0 when it
\* is about none) and the store keys whose setItem threw during it.
Event(op, id, failed) == [op |-> op, id |-> id, failed |-> failed]

\* The record of a completed read; last tells that the file was the last
\* one of its batch.
LoadedEvent(id, last) ==
    [op |-> "fileLoaded", id |-> id, failed |-> {}, last |-> last]

\* The record of a processFiles call, with the files it was given.
FilesEvent(files) ==
    [op |-> "processFiles", id |-> 0, failed |-> {}, files |-> files]

\* A variant of updateStats whose third count filters on the wrong status.
ComputeStatsSameFilter(history) ==
    [total |-> Len(history),
     authorized |-> Len(SelectSeq(history, LAMBDA item : item.status = "authorized")),
     unauthorized |-> Len(SelectSeq(history, LAMBDA item : item.status = "authorized"))]

\* updateStats: the three counts, computed from the history.
ComputeStats(history) ==
    [total |-> Len(history),
     authorized |-> Len(SelectSeq(history, LAMBDA item : item.status = "authorized")),
     unauthorized |-> Len(SelectSeq(history, LAMBDA item : item.status = "unauthorized"))]

\* ------------------------------------------------------------------ init
\* State after the constructor, before init() has loaded anything, with the
\* store holding one of stores.
Constructed(stores) ==
    /\ phase = "boot"
    /\ store \in stores
    /\ currentUser = NullUser
    /\ settings = DefaultSettings
    /\ analysisHistory = << >>
    /\ images = << >>
    /\ uploadedImages = << >>
    /\ elements = << >>
    /\ nextId = 1
    /\ ingests = {}
    /\ tasks = {}
    /\ drivers = {}
    /\ removals = {}
    /\ stats = [total |-> 0, authorized |-> 0, unauthorized |-> 0]
    /\ toasts = << >>
    /\ event = Event("construct", 0, {})

Init == Constructed(InitStores)

InitBatch == Constructed({ BatchStore })

InitValidate == Constructed(ValidateStores)

InitSettings == Constructed(SettingsStores)

InitAuto == Constructed(AutoStores)

\* ----------------------------------------------------------- persistence
\* loadUserData: the user read from the store, and the store it leaves.
LoadUserData(st) ==
    IF st.currentUser = Absent
    THEN [user |-> NullUser, store |-> st]
    ELSE IF Parses(st.currentUser)
         THEN [user |-> Parse(st.currentUser), store |-> st]
         ELSE [user |-> NullUser, store |-> [st EXCEPT !.currentUser = Absent]]

\* A variant of loadSettings that takes the stored record as it is.
LoadSettingsReplace(current, st) ==
    IF st.billboardAI_settings = Absent
    THEN [settings |-> current, store |-> st]
    ELSE IF Parses(st.billboardAI_settings)
         THEN [settings |-> Parse(st.billboardAI_settings), store |-> st]
         ELSE [settings |-> current, store |-> st]

\* loadSettings: the settings read from the store, and the store it leaves.
LoadSettings(current, st) ==
    IF st.billboardAI_settings = Absent
    THEN [settings |-> current, store |-> st]
    ELSE IF Parses(st.billboardAI_settings)
         THEN [settings |-> Spread(current, Parse(st.billboardAI_settings)),
               store |-> st]
         ELSE [settings |-> current, store |-> st]

\* loadAnalysisHistory: the history read from the store, and the store it
\* leaves.
LoadAnalysisHistory(current, st) ==
    IF st.billboardAI_history = Absent
    THEN [history |-> current, store |-> st]
    ELSE IF Parses(st.billboardAI_history)
         THEN [history |-> Parse(st.billboardAI_history), store |-> st]
         ELSE [history |-> current, store |-> st]

\* init(): the loads, then updateUI.
Startup ==
    /\ phase = "boot"
    /\ LET u == LoadUserData(store)
           s == LoadSettings(settings, u.store)
           h == LoadAnalysisHistory(analysisHistory, s.store)
       IN /\ currentUser' = u.user
          /\ settings' = s.settings
          /\ analysisHistory' = h.history
          /\ store' = h.store
          /\ stats' = ComputeStats(h.history)
    /\ phase' = "ready"
    /\ toasts' = << >>
    /\ event' = Event("init", 0, {})
    /\ UNCHANGED << images, uploadedImages, elements, nextId, ingests, tasks,
                    drivers, removals >>

\* A variant of saveAnalysisHistory that stores the newest item alone.
SaveAnalysisHistoryNewestOnly(history, st, ok) ==
    IF ok THEN [st EXCEPT !.billboardAI_history = Stringify(<< Head(history) >>)]
    ELSE st

\* saveAnalysisHistory: the store it leaves; ok is FALSE when setItem throws
\* (the catch logs to the console and shows nothing).
SaveAnalysisHistory(history, st, ok) ==
    IF ok THEN [st EXCEPT !.billboardAI_history = Stringify(history)] ELSE st

\* saveSettings: the store it leaves and the toast it shows.
SaveSettings(value, st, ok) ==
    IF ok
    THEN [store |-> [st EXCEPT !.billboardAI_settings = Stringify(value)],
          toasts |-> << Toast("Settings saved successfully!", "success") >>]
    ELSE [store |-> st,
          toasts |-> << Toast("Failed to save settings", "error") >>]

\* handleSettingsSubmit: the form's values replace the settings, then
\* saveSettings.
HandleSettingsSubmit(form, ok) ==
    /\ phase = "ready"
    /\ settings' = form
    /\ LET s == SaveSettings(form, store, ok)
       IN /\ store' = s.store
          /\ toasts' = s.toasts
    /\ event' = Event("settingsSubmit", 0,
                      IF ok THEN {} ELSE {"billboardAI_settings"})
    /\ UNCHANGED << phase, currentUser, analysisHistory, images,
                    uploadedImages, elements, nextId, ingests, tasks, drivers,
                    removals, stats >>

\* The page is loaded again: the instance and all it held in memory are
\* gone, the store stays, and DOMContentLoaded constructs a new instance.
\* The event keeps the settings the old instance had.
Reload ==
    /\ phase = "ready"
    /\ phase' = "boot"
    /\ store' = store
    /\ currentUser' = NullUser
    /\ settings' = DefaultSettings
    /\ analysisHistory' = << >>
    /\ images' = << >>
    /\ uploadedImages' = << >>
    /\ elements' = << >>
    /\ nextId' = 1
    /\ ingests' = {}
    /\ tasks' = {}
    /\ drivers' = {}
    /\ removals' = {}
    /\ stats' = [total |-> 0, authorized |-> 0, unauthorized |-> 0]
    /\ toasts' = << >>
    /\ event' = [op |-> "reload", id |-> 0, failed |-> {}, settings |-> settings]

\* handleLogout, the confirm dialog accepted (declined, it does nothing).
\* The button is shown only while a user is signed in.
HandleLogout ==
    /\ phase = "ready"
    /\ currentUser # NullUser
    /\ currentUser' = NullUser
    /\ store' = [store EXCEPT !.currentUser = Absent]
    /\ toasts' = << Toast("Logged out successfully", "success") >>
    /\ event' = Event("logout", 0, {})
    /\ UNCHANGED << phase, settings, analysisHistory, images, uploadedImages,
                    elements, nextId, ingests, tasks, drivers, removals,
                    stats >>

\* ------------------------------------------------------------- ingestion
\* A variant of the allow-list that lets plain text through.
AllowedTypesWithText ==
    { "image/jpeg", "image/jpg", "image/png", "image/gif", "image/webp",
      "text/plain" }

AllowedTypes ==
    { "image/jpeg", "image/jpg", "image/png", "image/gif", "image/webp" }

\* A variant of validateFiles that rejects a file whose size equals the
\* limit.
RECURSIVE ValidateFilesBelowLimit(_, _)
ValidateFilesBelowLimit(files, maxFileSize) ==
    IF files = << >>
    THEN [valid |-> << >>, toasts |-> << >>]
    ELSE LET file == Head(files)
             rest == ValidateFilesBelowLimit(Tail(files), maxFileSize)
         IN IF file.type \notin AllowedTypes
            THEN [valid |-> rest.valid,
                  toasts |-> << FileToast(file.name, "Unsupported file type", "error") >>
                             \o rest.toasts]
            ELSE IF file.size >= maxFileSize * 1024 * 1024
                 THEN [valid |-> rest.valid,
                       toasts |-> << FileToast(file.name, "File too large", "error") >>
                                  \o rest.toasts]
                 ELSE [valid |-> << file >> \o rest.valid, toasts |-> rest.toasts]

\* A variant of validateFiles that stops at the first file it rejects.
RECURSIVE ValidateFilesStopAtReject(_, _)
ValidateFilesStopAtReject(files, maxFileSize) ==
    IF files = << >>
    THEN [valid |-> << >>, toasts |-> << >>]
    ELSE LET file == Head(files)
         IN IF file.type \notin AllowedTypes
            THEN [valid |-> << >>,
                  toasts |-> << FileToast(file.name, "Unsupported file type", "error") >>]
            ELSE IF file.size > maxFileSize * 1024 * 1024
                 THEN [valid |-> << >>,
                       toasts |-> << FileToast(file.name, "File too large", "error") >>]
                 ELSE LET rest == ValidateFilesStopAtReject(Tail(files), maxFileSize)
                      IN [valid |-> << file >> \o rest.valid, toasts |-> rest.toasts]

\* validateFiles: the files it keeps, in order, and the toasts it shows.
RECURSIVE ValidateFiles(_, _)
ValidateFiles(files, maxFileSize) ==
    IF files = << >>
    THEN [valid |-> << >>, toasts |-> << >>]
    ELSE LET file == Head(files)
             rest == ValidateFiles(Tail(files), maxFileSize)
         IN IF file.type \notin AllowedTypes
            THEN [valid |-> rest.valid,
                  toasts |-> << FileToast(file.name, "Unsupported file type", "error") >>
                             \o rest.toasts]
            ELSE IF file.size > maxFileSize * 1024 * 1024
                 THEN [valid |-> rest.valid,
                       toasts |-> << FileToast(file.name, "File too large", "error") >>
                                  \o rest.toasts]
                 ELSE [valid |-> << file >> \o rest.valid, toasts |-> rest.toasts]

\* Image ids still to be generated for the files queued in the suspended
\* processFiles calls (the file being read has its id already).
RECURSIVE QueuedFiles(_)
QueuedFiles(gs) ==
    IF gs = {} THEN 0
    ELSE LET g == CHOOSE x \in gs : TRUE
         IN (Len(g.files) - 1) + QueuedFiles(gs \ {g})

\* A variant of the sign-in test that lets every caller through.
SignedInAlways(user) == TRUE

\* The test processFiles makes of this.currentUser.
SignedIn(user) == user # NullUser

\* processFiles, to its first suspension: the sign-in gate, validateFiles,
\* then addImageToGallery of the first valid file up to fileToDataURL.
\* maxImages bounds the ids generated.
ProcessFiles(files, maxImages) ==
    /\ phase = "ready"
    /\ event' = FilesEvent(files)
    /\ IF ~SignedIn(currentUser)
       THEN /\ toasts' = << Toast("Please sign in to upload images", "warning") >>
            /\ UNCHANGED << ingests, nextId >>
       ELSE IF Len(files) = 0
       THEN /\ toasts' = << >>
            /\ UNCHANGED << ingests, nextId >>
       ELSE LET v == ValidateFiles(files, settings.maxFileSize)
            IN IF Len(v.valid) = 0
               THEN /\ toasts' = v.toasts
                    /\ UNCHANGED << ingests, nextId >>
               ELSE /\ (nextId - 1) + QueuedFiles(ingests) + Len(v.valid) <= maxImages
                    /\ toasts' = v.toasts \o << Toast("Processing image(s)...", "info") >>
                    /\ ingests' = ingests \cup { [id |-> nextId, files |-> v.valid] }
                    /\ nextId' = nextId + 1
    /\ UNCHANGED << phase, store, currentUser, settings, analysisHistory,
                    images, uploadedImages, elements, tasks, drivers, removals,
                    stats >>

\* ------------------------------------------------------------- lifecycle
\* A variant of analyzeImage's early returns without the test for an entry
\* that is being analyzed.
AnalyzeImageGuardNoReentry(imgs, upl, els, imageId) ==
    /\ imageId \in Range(upl)
    /\ imageId \in DOMAIN els

\* analyzeImage's early returns: TRUE when the call goes on to analyze.
AnalyzeImageGuard(imgs, upl, els, imageId) ==
    /\ imageId \in Range(upl)
    /\ imgs[imageId].status # "analyzing"
    /\ imageId \in DOMAIN els

\* analyzeImage to its suspension in performAnalysis, called by the user
\* (by = << >>) or by the batch driver of snapshot by. started tells whether
\* it is suspended (TRUE) or has returned (FALSE).
AnalyzeImage(imgs, upl, els, tks, imageId, by) ==
    IF AnalyzeImageGuard(imgs, upl, els, imageId)
    THEN [images |-> [imgs EXCEPT ![imageId].status = "analyzing"],
          elements |-> [els EXCEPT ![imageId] =
                                     IF @ = "enabled" THEN "disabled" ELSE @],
          tasks |-> tks \cup { [id |-> imageId, by |-> by] },
          started |-> TRUE]
    ELSE [images |-> imgs, elements |-> els, tasks |-> tks, started |-> FALSE]

\* One iteration of the loop of analyzeAllPendingImages: the call of
\* analyzeImage on entry d.idx of the snapshot, then either the wait for
\* it or, when it returned at once, the 500 ms pause.
DriverCall(imgs, upl, els, tks, d) ==
    LET r == AnalyzeImage(imgs, upl, els, tks, d.snap[d.idx], d.snap)
    IN [images |-> r.images, elements |-> r.elements, tasks |-> r.tasks,
        driver |-> [d EXCEPT !.st = IF r.started THEN "await" ELSE "pause"]]

\* A variant of the snapshot that keeps its first entry only.
PendingImagesFirstOnly(imgs, upl) ==
    LET all == SelectSeq(upl, LAMBDA imageId : imgs[imageId].status = "pending")
    IN SubSeq(all, 1, 1)

\* The snapshot analyzeAllPendingImages takes: the pending entries, in the
\* map's insertion order.
PendingImages(imgs, upl) ==
    SelectSeq(upl, LAMBDA imageId : imgs[imageId].status = "pending")

\* analyzeAllPendingImages to its first suspension.
AnalyzeAllPendingImages(imgs, upl, els, tks, drs) ==
    LET snap == PendingImages(imgs, upl)
    IN IF snap = << >>
       THEN [images |-> imgs, elements |-> els, tasks |-> tks, drivers |-> drs]
       ELSE LET r == DriverCall(imgs, upl, els, tks,
                                [snap |-> snap, idx |-> 1, st |-> "await"])
            IN [images |-> r.images, elements |-> r.elements, tasks |-> r.tasks,
                drivers |-> drs \cup { r.driver }]

\* reader.onload for the file a processFiles call is suspended on: the rest
\* of addImageToGallery, then the next file or, after the last one, the
\* auto-analyze run.
FileLoaded(g) ==
    /\ g \in ingests
    /\ LET file == Head(g.files)
           imageData == [id |-> g.id, name |-> file.name, status |-> "pending",
                         confidence |-> NoConfidence, size |-> file.size]
           imgs == (g.id :> imageData) @@ images
           upl == Append(uploadedImages, g.id)
           els == (g.id :> "enabled") @@ elements
       IN /\ uploadedImages' = upl
          /\ IF Len(g.files) > 1
             THEN /\ ingests' = (ingests \ {g})
                                \cup { [id |-> nextId, files |-> Tail(g.files)] }
                  /\ nextId' = nextId + 1
                  /\ images' = imgs
                  /\ elements' = els
                  /\ UNCHANGED << tasks, drivers >>
             ELSE /\ ingests' = ingests \ {g}
                  /\ UNCHANGED nextId
                  /\ IF settings.autoAnalyze
                     THEN LET r == AnalyzeAllPendingImages(imgs, upl, els,
                                                           tasks, drivers)
                          IN /\ images' = r.images
                             /\ elements' = r.elements
                             /\ tasks' = r.tasks
                             /\ drivers' = r.drivers
                     ELSE /\ images' = imgs
                          /\ elements' = els
                          /\ UNCHANGED << tasks, drivers >>
    /\ toasts' = << >>
    /\ event' = LoadedEvent(g.id, Len(g.files) = 1)
    /\ UNCHANGED << phase, store, currentUser, settings, analysisHistory,
                    removals, stats >>

\* reader.onerror: fileToDataURL rejects, and with it addImageToGallery and
\* processFiles, which nothing catches.
FileLoadFailed(g) ==
    /\ g \in ingests
    /\ ingests' = ingests \ {g}
    /\ toasts' = << >>
    /\ event' = Event("fileLoadFailed", g.id, {})
    /\ UNCHANGED << phase, store, currentUser, settings, analysisHistory,
                    images, uploadedImages, elements, nextId, tasks, drivers,
                    removals, stats >>

\* A click on an entry's Analyze button, which is in the document and not
\* disabled.
AnalyzeClick(imageId) ==
    /\ imageId \in DOMAIN elements
    /\ elements[imageId] = "enabled"
    /\ LET r == AnalyzeImage(images, uploadedImages, elements, tasks,
                             imageId, << >>)
       IN /\ images' = r.images
          /\ elements' = r.elements
          /\ tasks' = r.tasks
    /\ toasts' = << >>
    /\ event' = Event("analyzeClick", imageId, {})
    /\ UNCHANGED << phase, store, currentUser, settings, analysisHistory,
                    uploadedImages, nextId, ingests, drivers, removals, stats >>

\* The verdict of line 625 for a Math.random() draw in thousandths.
Verdict(draw) == IF draw > 500 THEN "authorized" ELSE "unauthorized"

\* (Math.random() * 20 + 80).toFixed(1) for a draw in thousandths: the value
\* in thousandths, rounded to the nearest tenth; the result is in tenths.
Confidence(draw) == ((20 * draw + 80000) + 50) \div 100

\* The item addToHistory builds from an entry.
HistoryItem(imageData) ==
    [id |-> imageData.id, name |-> imageData.name, status |-> imageData.status,
     confidence |-> imageData.confidence, size |-> imageData.size]

\* A variant of addToHistory that pushes the item at the end.
AddToHistoryPush(history, imageData) == history \o << HistoryItem(imageData) >>

\* addToHistory: unshift of the item.
AddToHistory(history, imageData) == << HistoryItem(imageData) >> \o history

\* The promise of an analyzeImage call settles: the caller awaiting it, if
\* it is a batch driver, goes on to its 500 ms pause.
ResumeCaller(drs, by) ==
    { IF d.snap = by /\ d.st = "await" THEN [d EXCEPT !.st = "pause"] ELSE d :
        d \in drs }

\* A variant in which the fault is thrown on to the caller: a batch driver
\* awaiting the call ends there.
AfterFaultRethrow(drs, by) == { d \in drs : ~ (d.snap = by /\ d.st = "await") }

\* What a fault of performAnalysis does to the callers: the catch of
\* analyzeImage swallows it, so the call returns normally.
AfterFault(drs, by) == ResumeCaller(drs, by)

\* A variant of the catch block that leaves the entry's status alone.
OnAnalysisFaultStuck(imgs, imageId) == imgs

\* The catch block of analyzeImage: the entry's status becomes error.
OnAnalysisFault(imgs, imageId) == [imgs EXCEPT ![imageId].status = "error"]

\* performAnalysis resolves for the call t: the rest of analyzeImage's try
\* block with the two Math.random() draws, addToHistory (ok: whether the
\* store takes the write), the toast and updateStats.
AnalysisDone(t, draw, ok) ==
    /\ t \in tasks
    /\ LET imgs == [images EXCEPT ![t.id].status = Verdict(draw[1]),
                                  ![t.id].confidence = Confidence(draw[2])]
           history == AddToHistory(analysisHistory, imgs[t.id])
       IN /\ images' = imgs
          /\ analysisHistory' = history
          /\ store' = SaveAnalysisHistory(history, store, ok)
          /\ stats' = ComputeStats(history)
    /\ elements' = IF t.id \in DOMAIN elements
                   THEN [elements EXCEPT ![t.id] = "removed"]
                   ELSE elements
    /\ tasks' = tasks \ {t}
    /\ drivers' = ResumeCaller(drivers, t.by)
    /\ toasts' = << Toast("Analysis complete", "success") >>
    /\ event' = Event("analysisDone", t.id,
                      IF ok THEN {} ELSE {"billboardAI_history"})
    /\ UNCHANGED << phase, currentUser, settings, uploadedImages, nextId,
                    ingests, removals >>

\* performAnalysis rejects for the call t: the catch block, then
\* updateStats. The placeholder of lines 662-669 never rejects; the call of
\* the AI service it stands for can.
AnalysisFault(t) ==
    /\ t \in tasks
    /\ images' = OnAnalysisFault(images, t.id)
    /\ tasks' = tasks \ {t}
    /\ drivers' = AfterFault(drivers, t.by)
    /\ stats' = ComputeStats(analysisHistory)
    /\ toasts' = << Toast("Analysis failed. Please try again.", "error") >>
    /\ event' = Event("analysisFault", t.id, {})
    /\ UNCHANGED << phase, store, currentUser, settings, analysisHistory,
                    uploadedImages, elements, nextId, ingests, removals >>

\* The 500 ms pause of a batch driver ends: the next iteration of its loop,
\* or its end after the last entry.
PauseElapsed(d) ==
    /\ d \in drivers
    /\ d.st = "pause"
    /\ IF d.idx = Len(d.snap)
       THEN /\ drivers' = drivers \ {d}
            /\ event' = Event("driverEnd", 0, {})
            /\ UNCHANGED << images, elements, tasks >>
       ELSE LET r == DriverCall(images, uploadedImages, elements, tasks,
                                [d EXCEPT !.idx = d.idx + 1])
            IN /\ images' = r.images
               /\ elements' = r.elements
               /\ tasks' = r.tasks
               /\ drivers' = (drivers \ {d}) \cup { r.driver }
               /\ event' = Event("driverNext", d.snap[d.idx + 1], {})
    /\ toasts' = << >>
    /\ UNCHANGED << phase, store, currentUser, settings, analysisHistory,
                    uploadedImages, nextId, ingests, removals, stats >>

\* removeImage: with the element in the document, the 300 ms timer is armed.
\* A second timer for the same id finds nothing left to remove, so the
\* armed timers are kept as a set.
RemoveImage(imageId) ==
    /\ imageId \in DOMAIN elements
    /\ removals' = removals \cup {imageId}
    /\ toasts' = << >>
    /\ event' = Event("removeImage", imageId, {})
    /\ UNCHANGED << phase, store, currentUser, settings, analysisHistory,
                    images, uploadedImages, elements, nextId, ingests, tasks,
                    drivers, stats >>

\* The timer of removeImage fires: the element leaves the document and the
\* entry the map.
RemoveTimeout(imageId) ==
    /\ imageId \in removals
    /\ removals' = removals \ {imageId}
    /\ elements' = [i \in (DOMAIN elements) \ {imageId} |-> elements[i]]
    /\ uploadedImages' = SelectSeq(uploadedImages, LAMBDA i : i # imageId)
    /\ toasts' = << >>
    /\ event' = Event("removeTimeout", imageId, {})
    /\ UNCHANGED << phase, store, currentUser, settings, analysisHistory,
                    images, nextId, ingests, tasks, drivers, stats >>

Next ==
    \/ Startup
    \/ \E form \in FormSettings, ok \in BOOLEAN : HandleSettingsSubmit(form, ok)
    \/ HandleLogout
    \/ \E files \in Batches : ProcessFiles(files, MaxImages)
    \/ \E g \in ingests : FileLoaded(g)
    \/ \E g \in ingests : FileLoadFailed(g)
    \/ \E imageId \in DOMAIN elements : AnalyzeClick(imageId)
    \/ \E t \in tasks, draw \in RandomDraws, ok \in BOOLEAN : AnalysisDone(t, draw, ok)
    \/ \E t \in tasks : AnalysisFault(t)
    \/ \E d \in drivers : PauseElapsed(d)
    \/ \E imageId \in DOMAIN elements : RemoveImage(imageId)
    \/ \E imageId \in removals : RemoveTimeout(imageId)

Spec == Init /\ [][Next]_vars

\* One auto-analyzed batch of LongBatch, with the user's clicks on the
\* entries and faults of the analysis call; every write to the store
\* succeeds and the verdicts are all the same.
NextBatch ==
    \/ Startup
    \/ ProcessFiles(LongBatch, MaxBatchImages)
    \/ \E g \in ingests : FileLoaded(g)
    \/ \E imageId \in DOMAIN elements : AnalyzeClick(imageId)
    \/ \E t \in tasks : AnalysisDone(t, << 700, 0 >>, TRUE)
    \/ \E t \in tasks : AnalysisFault(t)
    \/ \E d \in drivers : PauseElapsed(d)
    \/ \E imageId \in DOMAIN elements : RemoveImage(imageId)
    \/ \E imageId \in removals : RemoveTimeout(imageId)

SpecBatch == InitBatch /\ [][NextBatch]_vars

\* Ingestion alone: validateFiles applied to the batches of ValBatches under
\* both size limits, and the reads of the files it accepted.
NextValidate ==
    \/ Startup
    \/ \E files \in ValBatches : ProcessFiles(files, MaxValImages)
    \/ \E g \in ingests : FileLoaded(g)
    \/ \E g \in ingests : FileLoadFailed(g)

SpecValidate == InitValidate /\ [][NextValidate]_vars

\* Uploads with auto-analyze switched on and off by the settings form, the
\* user's clicks and removals; every write to the store succeeds and the
\* verdicts are all the same.
NextAuto ==
    \/ Startup
    \/ \E form \in FormSettings : HandleSettingsSubmit(form, TRUE)
    \/ \E files \in Batches : ProcessFiles(files, MaxImages)
    \/ \E g \in ingests : FileLoaded(g)
    \/ \E imageId \in DOMAIN elements : AnalyzeClick(imageId)
    \/ \E t \in tasks : AnalysisDone(t, << 700, 0 >>, TRUE)
    \/ \E t \in tasks : AnalysisFault(t)
    \/ \E d \in drivers : PauseElapsed(d)
    \/ \E imageId \in DOMAIN elements : RemoveImage(imageId)
    \/ \E imageId \in removals : RemoveTimeout(imageId)

\* The analysis call of every entry completes or faults (performAnalysis
\* settles its promise after 2 to 5 s), and the 500 ms timer of a pausing
\* driver fires.
FairAuto ==
    /\ \A i \in 1..MaxImages :
          WF_vars(\E t \in tasks :
                     /\ t.id = i
                     /\ AnalysisDone(t, << 700, 0 >>, TRUE) \/ AnalysisFault(t))
    /\ WF_vars(\E d \in drivers : PauseElapsed(d))

SpecAuto == InitAuto /\ [][NextAuto]_vars /\ FairAuto

\* The settings alone: loads of stored records, submissions of the form and
\* reloads of the page.
NextSettings ==
    \/ Startup
    \/ \E form \in SettingsForms, ok \in BOOLEAN : HandleSettingsSubmit(form, ok)
    \/ Reload

SpecSettings == InitSettings /\ [][NextSettings]_vars

\* ---------------------------------------------------------------- claims
ToastTypes(ts) == { ts[k].type : k \in DOMAIN ts }

Analyzing == { i \in DOMAIN images : images[i].status = "analyzing" }

\* C1: once an entry's status is authorized, unauthorized or error, no step
\* changes it again.
C1_TerminalAbsorbing ==
    [][\A i \in DOMAIN images :
          images[i].status \in Terminal => images'[i].status = images[i].status]_vars

\* C2: at most one entry has status analyzing.
C2_OneAnalysisAtATime == Cardinality(Analyzing) <= 1

\* C3: a call of analyzeImage on an entry that is being analyzed changes no
\* entry, starts no analysis call and appends nothing to the history, and no
\* entry ever has two analysis calls in flight.
C3_ReentryGuard ==
    /\ [](\A t1, t2 \in tasks : t1.id = t2.id => t1 = t2)
    /\ [][(/\ event'.op \in { "driverNext", "analyzeClick" }
           /\ images[event'.id].status = "analyzing")
          => /\ images' = images
             /\ tasks' = tasks
             /\ analysisHistory' = analysisHistory]_vars

\* A batch driver has just called analyzeImage on an entry whose analysis,
\* started by a click, is in flight: the call returned and the driver pauses.
C3_Witness ==
    /\ event.op = "driverNext"
    /\ images[event.id].status = "analyzing"
    /\ [id |-> event.id, by |-> << >>] \in tasks
    /\ \E d \in drivers : d.snap[d.idx] = event.id /\ d.st = "pause"

\* C4: a history item is appended only while an entry with its id is in the
\* collection, so the completion of a call for a removed entry appends none.
C4_RemovedEntryDiscarded ==
    [][(phase = "ready" /\ analysisHistory' # analysisHistory)
       => Head(analysisHistory').id \in Range(uploadedImages)]_vars

\* C5: a successful completion leaves the entry authorized or unauthorized
\* with a confidence in [80,100] (800..1000 tenths) and puts exactly one
\* item in the history, with the entry's id, name, status, confidence and
\* size.
C5_SuccessAppendsSnapshot ==
    [][event'.op = "analysisDone"
       => LET imageData == images'[event'.id]
          IN /\ imageData.status \in { "authorized", "unauthorized" }
             /\ imageData.confidence \in 800..1000
             /\ Len(analysisHistory') = Len(analysisHistory) + 1
             /\ Tail(analysisHistory') = analysisHistory
             /\ Head(analysisHistory') =
                    [id |-> event'.id, name |-> imageData.name,
                     status |-> imageData.status,
                     confidence |-> imageData.confidence,
                     size |-> imageData.size]]_vars

\* An analysis has just completed with the verdict unauthorized at 100.0 %,
\* its item on top of an older one.
C5_Witness ==
    /\ event.op = "analysisDone"
    /\ images[event.id].status = "unauthorized"
    /\ images[event.id].confidence = 1000
    /\ Len(analysisHistory) >= 2
    /\ Head(analysisHistory).id = event.id

\* C6: a fault of the analysis call leaves the entry in error, shows an
\* error toast and writes no history, in memory or in the store.
C6_FaultSetsError ==
    [][event'.op = "analysisFault"
       => /\ images'[event'.id].status = "error"
          /\ "error" \in ToastTypes(toasts')
          /\ analysisHistory' = analysisHistory
          /\ store' = store]_vars

\* An analysis call has just faulted.
C6_Witness ==
    /\ event.op = "analysisFault"
    /\ images[event.id].status = "error"
    /\ "error" \in ToastTypes(toasts)

\* C7: a batch driver starts the analysis of its next entry only after the
\* entry before it has reached a terminal state. Stated for the entries
\* still in the collection.
C7_BatchSequential ==
    [][\A d \in drivers : \A d2 \in drivers' :
          (d2.snap = d.snap /\ d2.idx = d.idx + 1 /\ d2.st = "await"
           /\ d.snap[d.idx] \in Range(uploadedImages))
          => images[d.snap[d.idx]].status \in Terminal]_vars

\* C8: a fault of the call a batch driver awaits sends the driver to its
\* pause; a driver ends only from the pause after its last entry; and a
\* driver goes from one entry to the next only, calling analyzeImage on it.
C8_FaultDoesNotStopBatch ==
    [][/\ event'.op = "analysisFault"
          => \A d \in drivers :
                (d.st = "await" /\ d.snap[d.idx] = event'.id
                 /\ [id |-> event'.id, by |-> d.snap] \in tasks \ tasks')
                => [d EXCEPT !.st = "pause"] \in drivers'
       /\ \A d \in drivers :
             (\A d2 \in drivers' : d2.snap # d.snap)
             => d.st = "pause" /\ d.idx = Len(d.snap)
       /\ \A d \in drivers : \A d2 \in drivers' :
             (d2.snap = d.snap /\ d2.idx # d.idx)
             => /\ d2.idx = d.idx + 1
                /\ event' = Event("driverNext", d.snap[d2.idx], {})]_vars

\* A batch driver awaits the analysis of its second entry after the analysis
\* of its first one faulted.
C8_Witness ==
    /\ event.op = "driverNext"
    /\ \E d \in drivers :
          /\ d.idx = 2
          /\ d.st = "await"
          /\ d.snap[2] = event.id
          /\ images[d.snap[1]].status = "error"

\* C9: init() leaves no corrupt record in the store, and the value of a
\* record that was corrupt at its default.
C9_CorruptRecordsCleared ==
    [][(phase = "boot" /\ phase' = "ready")
       => /\ store.currentUser = Corrupt
             => currentUser' = NullUser /\ store'.currentUser = Absent
          /\ store.billboardAI_settings = Corrupt
             => /\ settings' = DefaultSettings
                /\ store'.billboardAI_settings = Absent
          /\ store.billboardAI_history = Corrupt
             => /\ analysisHistory' = << >>
                /\ store'.billboardAI_history = Absent]_vars

\* C10: after a step in which a write to the store failed, an error toast
\* is shown and the value in memory is the new one.
C10_WriteFailureNotified ==
    event.failed # {}
    => /\ "error" \in ToastTypes(toasts)
       /\ "billboardAI_settings" \in event.failed => settings \in FormSettings
       /\ "billboardAI_history" \in event.failed
          => Head(analysisHistory).id = event.id

\* The files a step queued for reading: those of the processFiles call it
\* suspended in fileToDataURL.
NewlyQueued ==
    IF ingests' \subseteq ingests THEN << >>
    ELSE (CHOOSE g \in ingests' \ ingests : TRUE).files

ErrorToasts(ts) == SelectSeq(ts, LAMBDA t : t.type = "error")

\* Every file a step queues has one of the given MIME types, and every entry
\* it creates has the name of a file of one of them.
OnlyTypes(types) ==
    /\ \A k \in DOMAIN NewlyQueued : NewlyQueued[k].type \in types
    /\ \A i \in (DOMAIN images') \ (DOMAIN images) :
          \E f \in ValFiles : f.name = images'[i].name /\ f.type \in types

\* C11 as stated: no file whose MIME type is outside image/jpeg, image/png,
\* image/gif, image/webp is accepted, and no entry is created from one.
C11_ListedTypesOnly ==
    [][OnlyTypes({ "image/jpeg", "image/png", "image/gif", "image/webp" })]_vars

\* C11: no file whose MIME type is outside image/jpeg, image/jpg, image/png,
\* image/gif, image/webp is accepted, and no entry is created from one.
C11_AllowedTypesOnly ==
    [][OnlyTypes({ "image/jpeg", "image/jpg", "image/png", "image/gif",
                   "image/webp" })]_vars

\* A batch with files of the types image/svg+xml, image/jpg and none was
\* offered: the image/jpg file alone is queued for reading.
C11_Witness ==
    /\ event = FilesEvent(<< SvgHuge, JpgAlias, GifOverTen, NoType >>)
    /\ \E g \in ingests : g.files = << JpgAlias >>

\* What validateFiles is to accept under the size limit maxFileSize (in MB).
Accepts(file, maxFileSize) ==
    /\ file.type \in { "image/jpeg", "image/jpg", "image/png", "image/gif",
                       "image/webp" }
    /\ file.size <= maxFileSize * 1048576

\* C12: of the files of an allowed type, a processFiles call of a signed-in
\* user queues exactly those of at most maxFileSize * 1024 * 1024 bytes and
\* reports the others as too large; a file of another type is reported as
\* of an unsupported type, whatever its size.
C12_SizeLimitInclusive ==
    [][(event'.op = "processFiles" /\ currentUser # NullUser)
       => LET files == event'.files
              limit == settings.maxFileSize * 1048576
              shown == { toasts'[k] : k \in DOMAIN toasts' }
          IN /\ NewlyQueued = SelectSeq(files, LAMBDA f : Accepts(f, settings.maxFileSize))
             /\ \A k \in DOMAIN files :
                   LET f == files[k]
                       large == FileToast(f.name, "File too large", "error")
                       type == FileToast(f.name, "Unsupported file type", "error")
                   IN IF f.type \in { "image/jpeg", "image/jpg", "image/png",
                                      "image/gif", "image/webp" }
                      THEN /\ type \notin shown
                           /\ large \in shown <=> f.size > limit
                      ELSE type \in shown /\ large \notin shown]_vars

\* With maxFileSize 1, a file of exactly 1 MB was queued and one of 1 MB and
\* one byte reported as too large.
C12_Witness ==
    /\ settings.maxFileSize = 1
    /\ event = FilesEvent(<< PngOver, PngAtLimit >>)
    /\ \E g \in ingests : g.files = << PngAtLimit >>
    /\ toasts[1] = FileToast("over.png", "File too large", "error")

\* C13: a processFiles call of a signed-in user shows one error toast for
\* each file it rejects, in order, creates no entry and changes neither the
\* history nor the store, and queues every file it accepts, wherever it
\* stands in the batch; the read of a queued file creates its entry, pending
\* (analyzing when a batch run starts on it at once), and leaves the files
\* after it queued.
C13_RejectionKeepsBatch ==
    [][/\ (event'.op = "processFiles" /\ currentUser # NullUser)
          => LET files == event'.files
                 rejected == SelectSeq(files, LAMBDA f : ~Accepts(f, settings.maxFileSize))
                 errors == ErrorToasts(toasts')
             IN /\ Len(errors) = Len(rejected)
                /\ \A k \in DOMAIN rejected : errors[k].file = rejected[k].name
                /\ NewlyQueued = SelectSeq(files, LAMBDA f : Accepts(f, settings.maxFileSize))
                /\ images' = images
                /\ uploadedImages' = uploadedImages
                /\ analysisHistory' = analysisHistory
                /\ store' = store
       /\ event'.op = "fileLoaded"
          => \E g \in ingests \ ingests' :
                /\ g.id = event'.id
                /\ g.id \notin DOMAIN images
                /\ images'[g.id].name = g.files[1].name
                /\ images'[g.id].status \in { "pending", "analyzing" }
                /\ uploadedImages' = Append(uploadedImages, g.id)
                /\ NewlyQueued = Tail(g.files)]_vars

\* The files before and after a rejected one have both become pending
\* entries.
C13_Witness ==
    /\ event.op = "fileLoaded"
    /\ Len(uploadedImages) = 2
    /\ images[uploadedImages[1]].name = "limit.png"
    /\ images[uploadedImages[2]].name = "empty.webp"
    /\ \A k \in 1..2 : images[uploadedImages[k]].status = "pending"

\* C14: when the read of an accepted file fails, no entry is created and a
\* toast reports the failure.
C14_ReadFailureReported ==
    [][event'.op = "fileLoadFailed"
       => /\ images' = images
          /\ uploadedImages' = uploadedImages
          /\ toasts' # << >>]_vars

\* C15: init() leaves every settings field at the value the stored record
\* gives it and, where the record has none, at its default (theme light,
\* notifications on, maxFileSize 10, autoAnalyze off); a successful
\* saveSettings stores the text of the settings in memory; and a new
\* instance that finds the text of the settings the instance before it had
\* loads exactly those settings.
C15_SettingsMergeRoundTrip ==
    [][/\ (phase = "boot" /\ phase' = "ready"
           /\ store.billboardAI_settings.kind = "json")
          => LET record == store.billboardAI_settings.val
                 default == [theme |-> "light", notifications |-> TRUE,
                             maxFileSize |-> 10, autoAnalyze |-> FALSE]
             IN /\ DOMAIN settings' = DOMAIN default
                /\ \A k \in DOMAIN default :
                      settings'[k] = IF k \in DOMAIN record THEN record[k]
                                     ELSE default[k]
       /\ (event'.op = "settingsSubmit" /\ event'.failed = {})
          => store'.billboardAI_settings = Stringify(settings')
       /\ (phase = "boot" /\ phase' = "ready" /\ event.op = "reload"
           /\ store.billboardAI_settings = Stringify(event.settings))
          => settings' = event.settings]_vars

\* A new instance has loaded the settings the instance before it saved:
\* dark theme, no notifications, 50 MB, auto-analyze on.
C15_Witness ==
    /\ event.op = "init"
    /\ settings = [theme |-> "dark", notifications |-> FALSE,
                   maxFileSize |-> 50, autoAnalyze |-> TRUE]
    /\ store.billboardAI_settings = Stringify(settings)

\* Positions of the history items with the given status.
WithStatus(status) ==
    { k \in DOMAIN analysisHistory : analysisHistory[k].status = status }

\* C16: the statistics on the page are the number of history items, the
\* number of them that are authorized and the number that are unauthorized,
\* whatever the history holds and in whatever order.
C16_StatsFromHistory ==
    /\ stats.total = Len(analysisHistory)
    /\ stats.authorized = Cardinality(WithStatus("authorized"))
    /\ stats.unauthorized = Cardinality(WithStatus("unauthorized"))

\* An analysis has just completed, its unauthorized item on top of two
\* authorized ones: the statistics are 3, 2 and 1.
C16_Witness ==
    /\ event.op = "analysisDone"
    /\ Len(analysisHistory) = 3
    /\ analysisHistory[1].status = "unauthorized"
    /\ analysisHistory[2].status = "authorized"
    /\ stats = [total |-> 3, authorized |-> 2, unauthorized |-> 1]

\* C17: once init() has loaded it, a step leaves the history as it is or
\* puts one item in front of it, the items it had unchanged and in order;
\* and after an append whose write succeeded the history record in the store
\* is the text of the history in memory.
C17_HistoryAppendOnly ==
    [][phase = "ready"
       => /\ \/ analysisHistory' = analysisHistory
             \/ /\ Len(analysisHistory') = Len(analysisHistory) + 1
                /\ \A k \in DOMAIN analysisHistory :
                      analysisHistory'[k + 1] = analysisHistory[k]
          /\ (analysisHistory' # analysisHistory /\ event'.failed = {})
             => /\ Parses(store'.billboardAI_history)
                /\ Parse(store'.billboardAI_history) = analysisHistory']_vars

\* An item has just been put in front of two older ones and written: the
\* store holds all three.
C17_Witness ==
    /\ event = Event("analysisDone", event.id, {})
    /\ Len(analysisHistory) = 3
    /\ analysisHistory[1].id = event.id
    /\ analysisHistory[3] = OldItem
    /\ store.billboardAI_history = Stringify(analysisHistory)

\* C19: a processFiles call made while no user is signed in queues no file,
\* creates no entry and changes neither the history, the settings nor the
\* store; and a logout clears the user in memory and in the store and
\* leaves the entries, the history, the settings and their records alone.
C19_UploadNeedsUser ==
    [][/\ (event'.op = "processFiles" /\ currentUser = NullUser)
          => /\ ingests' = ingests
             /\ nextId' = nextId
             /\ images' = images
             /\ uploadedImages' = uploadedImages
             /\ elements' = elements
             /\ analysisHistory' = analysisHistory
             /\ settings' = settings
             /\ store' = store
       /\ event'.op = "logout"
          => /\ currentUser' = NullUser
             /\ store'.currentUser = Absent
             /\ store'.billboardAI_settings = store.billboardAI_settings
             /\ store'.billboardAI_history = store.billboardAI_history
             /\ images' = images
             /\ uploadedImages' = uploadedImages
             /\ analysisHistory' = analysisHistory
             /\ settings' = settings]_vars

\* After a logout that left an entry in the gallery, a batch with valid
\* files was offered and refused with a warning.
C19_Witness ==
    /\ event = FilesEvent(<< FileC, FileA, FileB >>)
    /\ currentUser = NullUser
    /\ store.currentUser = Absent
    /\ uploadedImages # << >>
    /\ ingests = {}
    /\ toasts = << Toast("Please sign in to upload images", "warning") >>

\* The last file of a batch has just been read with auto-analyze on, and
\* entry i is in the collection, pending or being analyzed.
BatchIngested(i) ==
    /\ event.op = "fileLoaded"
    /\ event.last
    /\ settings.autoAnalyze
    /\ i \in Range(uploadedImages)
    /\ images[i].status \in { "pending", "analyzing" }

\* Entry i is out of the collection or in a terminal state.
RemovedOrTerminal(i) ==
    \/ i \notin Range(uploadedImages)
    \/ images[i].status \in Terminal

AutoAnalyzeCompletes ==
    \A i \in 1..MaxImages : BatchIngested(i) ~> RemovedOrTerminal(i)

\* Entry i is pending, or about to be created, before a step and not pending
\* after it.
LeavesPending(i) ==
    /\ i \in DOMAIN images'
    /\ images'[i].status # "pending"
    /\ i \in DOMAIN images => images[i].status = "pending"

\* C18 as stated: every entry in the collection when a batch has been
\* ingested with auto-analyze on is eventually terminal or removed; and
\* while auto-analyze is off an entry leaves pending by a click on its
\* Analyze button only.
C18_AutoAnalyzeOrClick ==
    /\ AutoAnalyzeCompletes
    /\ [][\A i \in 1..MaxImages :
             (LeavesPending(i) /\ ~settings.autoAnalyze)
             => event' = Event("analyzeClick", i, {})]_vars

\* C18: every entry in the collection when a batch has been ingested with
\* auto-analyze on is eventually terminal or removed; a batch run starts
\* only when the last file of a batch has been read with auto-analyze on;
\* and an entry leaves pending by a click on its Analyze button or by the
\* call of a batch run only.
C18_AutoAnalyzeOrRunOrClick ==
    /\ AutoAnalyzeCompletes
    /\ [][/\ \A d \in drivers' :
                (\A d0 \in drivers : d0.snap # d.snap)
                => /\ event'.op = "fileLoaded"
                   /\ event'.last
                   /\ settings.autoAnalyze
          /\ \A i \in 1..MaxImages :
                LeavesPending(i)
                => \/ event' = Event("analyzeClick", i, {})
                   \/ event' = Event("driverNext", i, {})
                   \/ /\ event'.op = "fileLoaded"
                      /\ \E d \in drivers' \ drivers : d.snap[1] = i]_vars

\* A batch run that began with auto-analyze on has reached its second
\* entry, which was pending, after auto-analyze was switched off, and the
\* first entry is terminal.
C18_Witness ==
    /\ event.op = "driverNext"
    /\ ~settings.autoAnalyze
    /\ images[event.id].status = "analyzing"
    /\ \E d \in drivers :
          /\ d.idx = 2
          /\ d.snap[2] = event.id
          /\ d.st = "await"
          /\ images[d.snap[1]].status \in Terminal
====
